---- MODULE Spec2Model ----
(***************************************************************************)
(* A model of the boat base of erh/viamboatbase (base.go): the shared      *)
(* boatState behind stateMutex, the caller-side operations SetVelocity,    *)
(* Spin, SetPower, Stop and Close, the lazily started background loop      *)
(* goroutine, the motors and the movement sensor.                          *)
(*                                                                         *)
(* Units.  Powers (motor powers, lastPowerLinear, lastPowerAngular and the *)
(* linear goal, which computeNextPower copies into the linear power) are   *)
(* integers counting 1/PowerOne, so PowerOne is the power 1.0.  Angular    *)
(* velocities and spin rates are whole degrees per second, headings whole  *)
(* degrees.  With whole-degree inputs every quantity computeNextPower      *)
(* produces is an exact multiple of 1/36.                                  *)
(***************************************************************************)
EXTENDS Integers, Sequences, FiniteSets, TLC

VARIABLES
    hasSensor,        \* b.movementSensor != nil (configuration)
    nMotors,          \* len(b.motors) (configuration)
    nThreads,         \* caller threads that issue calls
    budget,           \* calls the callers may still issue
    st,               \* b.state (boatState), guarded by stateMutex
    mutex,            \* holder of b.stateMutex, NoProc when free
    cancel,           \* b.cancel != nil
    loopCtxCancelled, \* the loop's context has been cancelled
    wg,               \* counter of b.waitGroup
    currentOp,        \* b.opMgr: the thread owning the running operation
    opCancelled,      \* b.opMgr: the operation context of each thread is cancelled
    motors,           \* power last applied to each motor
    pc,               \* position of every caller thread and of the loop
    fr,               \* locals of every caller thread and of the loop
    ret,              \* the call that returned last, with its error
    quietStops,       \* Stop calls completed in succession with no motion command since
    stopClean,        \* threads inside a Stop begun with no motion command in flight
    superseded,       \* threads in Spin's wait throughout a SetVelocity that returned nil
    closeStopped,     \* a Close has completed its motor Stop calls
    pure              \* input and output of the last pure-function application

vars == <<hasSensor, nMotors, nThreads, budget, st, mutex, cancel, loopCtxCancelled, wg,
          currentOp, opCancelled, motors, pc, fr, ret, quietStops, stopClean,
          superseded, closeStopped, pure>>

(***************************************************************************)
(* Bounds of the model.                                                    *)
(***************************************************************************)
MaxThreads == 2
MaxMotors == 1
MaxCalls == 2
MaxSeqMotors == 2
MaxSeqCalls == 3
MaxDiff == 7
MaxFaultCalls == 2
MaxFaultMotors == 2
MaxPidCalls == 260
MaxFreeCalls == 3

(***************************************************************************)
(* Program constants.                                                      *)
(***************************************************************************)
controlNone == 0
controlVelocity == 1
controlHeading == 2
\* Power 1.0, the clamp of computeNextPower: powers count 1/36.
PowerOne == 36

Loop == 0
NoProc == -1
Threads == 1..MaxThreads
Procs == {Loop} \cup Threads

Vec(x, y, z) == [X |-> x, Y |-> y, Z |-> z]
ZeroVec == Vec(0, 0, 0)

Abs(x) == IF x < 0 THEN -x ELSE x
Max(a, b) == IF a > b THEN a ELSE b
Min(a, b) == IF a < b THEN a ELSE b

(***************************************************************************)
(* Inputs the callers and the environment draw from.                       *)
(***************************************************************************)
LinearArgs == {ZeroVec, Vec(0, PowerOne, 0)}
AngularArgs == {ZeroVec, Vec(0, 0, 36)}
PowerAngularArgs == {ZeroVec, Vec(0, 0, PowerOne)}
SpinAngles == {90}
SpinRates == {36, 72}
Headings == {0, 90}
AngularVelocities == {0, 36}

(***************************************************************************)
(* Pure functions of base.go.                                              *)
(***************************************************************************)

\* The initial boatState: the zero value of the struct (createBoat sets no field).
InitState ==
    [threadStarted |-> FALSE, controlState |-> controlNone, lastPower |-> <<>>,
     lastPowerLinear |-> ZeroVec, lastPowerAngular |-> ZeroVec,
     velocityLinearGoal |-> ZeroVec, velocityAngularGoal |-> ZeroVec,
     compassGoal |-> 0, spinVelocity |-> 0]

\* Exact quotient a/b for the inputs used here (a is a multiple of b).
Quot(a, b) == IF a < 0 THEN -((-a) \div b) ELSE a \div b

\* updateVelocityGoalForHeading: the angular velocity goal Z for diff = heading - goal.
HeadingGoalZ(diff, spinVelocity) ==
    IF diff < -5 THEN -1 * spinVelocity
    ELSE IF diff > 5 THEN spinVelocity
    ELSE IF diff < -1 THEN Quot((diff * (-1)) * spinVelocity, 5)
    ELSE IF diff > 1 THEN Quot(diff * spinVelocity, 5)
    ELSE 0

updateVelocityGoalForHeading(state, heading) ==
    [state EXCEPT !.velocityAngularGoal.Z =
        HeadingGoalZ(heading - state.compassGoal, state.spinVelocity)]

\* delta = angularDiff / 360 is kept as its numerator d: `for math.Abs(delta) < .01
\* { delta *= 2 }` doubles d while |d| / 360 < 1 / 100.
RECURSIVE DoubleDelta(_)
DoubleDelta(d) == IF Abs(d) * 100 < 360 THEN DoubleDelta(2 * d) ELSE d

\* angular.Z after computeNextPower, in 1/PowerOne: angular.Z -= delta * 10 is
\* a step of d / 36, then the clamp to [-1, 1].
NextAngularZ(lastZ, angularDiff) ==
    IF Abs(angularDiff) > 1
    THEN Min(PowerOne, Max(-PowerOne, lastZ - DoubleDelta(angularDiff)))
    ELSE lastZ

\* computeNextPower: <<linear, angular>>.
computeNextPower(state, angularVelocityZ) ==
    LET angularDiff == angularVelocityZ - state.velocityAngularGoal.Z
        linear == [state.lastPowerLinear EXCEPT
                      !.Y = state.velocityLinearGoal.Y,
                      !.X = state.velocityLinearGoal.X]
        angular == [state.lastPowerAngular EXCEPT
                      !.Z = NextAngularZ(state.lastPowerAngular.Z, angularDiff)]
    IN  <<linear, angular>>

\* rdkutils.AngleDiffDeg as Spin's wait uses it.
AngleDiffDeg(a1, a2) == 180 - Abs(Abs(a1 - a2) - 180)

SpinDone(goal, compass) == AngleDiffDeg(goal, compass) < 1

\* Config.ComputePower for a boat whose motors all face forward, mounted
\* alternately left and right of the centre line: the allocation that
\* reproduces the goal exactly is linear.Y + angular.Z on one side and
\* linear.Y - angular.Z on the other, each kept in [-1, 1]. The inputs of
\* the model have linear.X = 0.
MotorSide(i) == IF i % 2 = 1 THEN 1 ELSE -1

ComputePower(n, linear, angular) ==
    [i \in 1..n |-> Min(PowerOne, Max(-PowerOne, linear.Y + MotorSide(i) * angular.Z))]

(***************************************************************************)
(* goalScale (kinematics.go).  Values count 1/GoalUnit; the inputs of the  *)
(* model make otherVal * ratioGoal a whole number of units.                *)
(***************************************************************************)
GoalUnit == 100
\* .05
Deadband == 5

\* ratioCur > ratioGoal, with the IEEE quotients: x/0 is +Inf for x # 0,
\* 0/0 is NaN and compares false; otherGoal is outside the deadband here.
RatioCurExceeds(currentVal, otherVal, currentGoal, otherGoal) ==
    Abs(currentVal) * Abs(otherGoal) > Abs(currentGoal) * Abs(otherVal)

goalScale(currentVal, otherVal, currentGoal, otherGoal) ==
    IF Abs(currentGoal) < Deadband \/ Abs(otherGoal) < Deadband
    THEN currentVal
    ELSE IF RatioCurExceeds(currentVal, otherVal, currentGoal, otherGoal)
         THEN Quot(otherVal * Abs(currentGoal), Abs(otherGoal))
         ELSE currentVal

(***************************************************************************)
(* pidState (pid.go).  Values count 1/PidScale; the gains are the          *)
(* fractions 8/100, 75/1000 and 1/10000, the clamp is [-1, 1].             *)
(***************************************************************************)
PidScale == 100000

setDefaults_NoIntegral ==
    [proportionalGainNum |-> 8, proportionalGainDen |-> 100,
     integralGainNum |-> 0, integralGainDen |-> 1000,
     derivativeGainNum |-> 1, derivativeGainDen |-> 10000,
     minOutput |-> -PidScale, maxOutput |-> PidScale,
     integral |-> 0, previousError |-> 0]

setDefaults ==
    [proportionalGainNum |-> 8, proportionalGainDen |-> 100,
     integralGainNum |-> 75, integralGainDen |-> 1000,
     derivativeGainNum |-> 1, derivativeGainDen |-> 10000,
     minOutput |-> -PidScale, maxOutput |-> PidScale,
     integral |-> 0, previousError |-> 0]

Control_NoClamp(pid, target, current, dtMs) ==
    LET error == target - current
        integral == pid.integral + Quot(error * dtMs, 1000)
    IN  [out |-> Quot(pid.proportionalGainNum * error, pid.proportionalGainDen)
                   + Quot(pid.integralGainNum * integral, pid.integralGainDen)
                   + Quot(Quot(pid.derivativeGainNum * (error - pid.previousError),
                               pid.derivativeGainDen) * 1000, dtMs),
         pid |-> [pid EXCEPT !.integral = integral, !.previousError = error]]

\* pidState.Control: [out, pid], timeSinceLastCall in milliseconds.
Control(pid, target, current, dtMs) ==
    LET error == target - current
        p == Quot(pid.proportionalGainNum * error, pid.proportionalGainDen)
        integral == pid.integral + Quot(error * dtMs, 1000)
        i == Quot(pid.integralGainNum * integral, pid.integralGainDen)
        d == Quot(Quot(pid.derivativeGainNum * (error - pid.previousError),
                       pid.derivativeGainDen) * 1000, dtMs)
        n == p + i + d
        n1 == IF pid.minOutput # 0 /\ n < pid.minOutput THEN pid.minOutput ELSE n
        n2 == IF pid.maxOutput # 0 /\ n1 > pid.maxOutput THEN pid.maxOutput ELSE n1
    IN  [out |-> n2, pid |-> [pid EXCEPT !.integral = integral, !.previousError = error]]

(***************************************************************************)
(* State written by the commands, under stateMutex.                        *)
(***************************************************************************)

ShouldStartThread_Always(state) == TRUE

\* startVelocityThreadInLock: the loop is started only when none was.
ShouldStartThread(state) == ~state.threadStarted

SetVelocityState_DropAngular(state, linear, angular) ==
    [state EXCEPT !.controlState = controlVelocity,
                  !.velocityLinearGoal = linear]

\* SetVelocity, after startVelocityThreadInLock returned nil.
SetVelocityState(state, linear, angular) ==
    [state EXCEPT !.controlState = controlVelocity,
                  !.velocityLinearGoal = linear,
                  !.velocityAngularGoal = angular]

SetVelocityFailedState_Writes(state, linear, angular) ==
    [state EXCEPT !.controlState = controlVelocity,
                  !.velocityLinearGoal = linear,
                  !.velocityAngularGoal = angular]

\* SetVelocity, when startVelocityThreadInLock returned an error: the
\* deferred unlock and the return, nothing written.
SetVelocityFailedState(state, linear, angular) == state

\* Spin, before startVelocityThreadInLock.
SpinState(state, goal, degsPerSec) ==
    [state EXCEPT !.controlState = controlHeading,
                  !.compassGoal = goal,
                  !.velocityLinearGoal = ZeroVec,
                  !.spinVelocity = degsPerSec,
                  !.velocityAngularGoal = ZeroVec]

\* Spin: goal := compass + angleDeg.
SpinGoal(compass, angleDeg) == compass + angleDeg

\* SetPower.
SetPowerState(state) == [state EXCEPT !.controlState = controlNone]

\* Stop.
StopState(state) ==
    [state EXCEPT !.velocityLinearGoal = ZeroVec, !.velocityAngularGoal = ZeroVec]

SpinCancelledState_Stops(state) == StopState(state)

\* Spin, when WaitForSuccess returns the context's error: nothing written.
SpinCancelledState(state) == state

\* setPowerInternal, after every motor took its power.
LastPowerState(state, power, linear, angular) ==
    [state EXCEPT !.lastPower = power,
                  !.lastPowerLinear = linear,
                  !.lastPowerAngular = angular]

\* velocityThreadLoop under the lock: the state a tick leaves.
TickState(state, heading) ==
    IF state.controlState = controlHeading
    THEN updateVelocityGoalForHeading(state, heading)
    ELSE state

(***************************************************************************)
(* Processes.                                                              *)
(***************************************************************************)
\* A Spin no SetVelocity has registered its operation after.
NotOvertaken == [lin |-> ZeroVec, ang |-> ZeroVec, budget |-> -1]

DefaultFrame ==
    [op |-> "", lin |-> ZeroVec, ang |-> ZeroVec, goal |-> 0, rate |-> 0,
     compass |-> 0, angle |-> 0, power |-> <<>>, idx |-> 0,
     err |-> "nil", serr |-> "nil", after |-> "", waiting |-> {},
     ctxDone |-> FALSE, asleep |-> FALSE, scancel |-> FALSE,
     sent |-> {}, stopped |-> {}, failedAt |-> 0, overtaken |-> NotOvertaken]

\* multierr.Combine(a, b)
Combine(a, b) ==
    IF a = "nil" THEN b ELSE IF b = "nil" THEN a ELSE a \o "; " \o b

NoRet == [op |-> "", err |-> "nil"]

MotionOps == {"SetVelocity", "Spin", "SetPower"}

\* Idle caller threads are interchangeable: the next call is made by the
\* first of them.
CanCall(t) ==
    /\ t <= nThreads
    /\ pc[t] = "idle"
    /\ budget > 0
    /\ \A u \in Threads : u < t => pc[u] # "idle"

\* The context setPowerInternal runs under: the loop's, or SetPower's operation context.
CtxDone(p) == IF p = Loop THEN loopCtxCancelled ELSE opCancelled[p]

\* The context carries an operation of b.opMgr (SetPower passes its operation
\* context on; the loop's context and a caller's own context carry none).
HasOpKey(p) == p # Loop /\ fr[p].op = "SetPower"

\* opMgr.New: cancel the running operation, make the caller's the running one.
NewOp(t) ==
    /\ currentOp' = t
    /\ opCancelled' = [u \in Threads |->
                          IF u = t THEN FALSE
                          ELSE IF u = currentOp THEN TRUE ELSE opCancelled[u]]

\* done(): the operation is no longer the running one; its context is dead.
DoneOp(t) ==
    /\ currentOp' = IF currentOp = t THEN NoProc ELSE currentOp
    /\ opCancelled' = [opCancelled EXCEPT ![t] = FALSE]

\* opMgr.CancelRunning(ctx).
CancelRunning(p) ==
    IF HasOpKey(p) \/ currentOp = NoProc
    THEN UNCHANGED <<currentOp, opCancelled>>
    ELSE /\ currentOp' = NoProc
         /\ opCancelled' = [opCancelled EXCEPT ![currentOp] = TRUE]

\* A motion command begins: the succession of Stop calls is broken.
MotionBegins ==
    /\ quietStops' = 0
    /\ stopClean' = {}

\* The configurations explored: every caller thread issuing calls
\* concurrently, up to MaxCalls calls in all, on up to MaxMotors motors; and
\* one caller issuing up to MaxSeqCalls calls on up to MaxSeqMotors motors.
Configs ==
    {[threads |-> MaxThreads, calls |-> MaxCalls, motors |-> m] : m \in 0..MaxMotors}
    \cup {[threads |-> 1, calls |-> MaxSeqCalls, motors |-> m] : m \in 0..MaxSeqMotors}

InitFor(cfg) ==
    /\ hasSensor \in BOOLEAN
    /\ nMotors = cfg.motors
    /\ nThreads = cfg.threads
    /\ budget = cfg.calls
    /\ st = InitState
    /\ mutex = NoProc
    /\ cancel = FALSE
    /\ loopCtxCancelled = FALSE
    /\ wg = 0
    /\ currentOp = NoProc
    /\ opCancelled = [t \in Threads |-> FALSE]
    /\ motors = [i \in 1..nMotors |-> 0]
    /\ pc = [p \in Procs |-> IF p = Loop THEN "off" ELSE "idle"]
    /\ fr = [p \in Procs |-> DefaultFrame]
    /\ ret = NoRet
    /\ quietStops = 0
    /\ stopClean = {}
    /\ superseded = {}
    /\ closeStopped = FALSE
    /\ pure = [fn |-> "", a |-> 0, b |-> 0, c |-> 0, out |-> 0]

Init == \E cfg \in Configs : InitFor(cfg)

(***************************************************************************)
(* SetVelocity.                                                            *)
(***************************************************************************)
CallSetVelocity(t, linear, angular) ==
    /\ CanCall(t)
    /\ budget' = budget - 1
    /\ NewOp(t)
    /\ MotionBegins
    /\ pc' = [pc EXCEPT ![t] = "sv_lock"]
    /\ fr' = [u \in Procs |->
                IF u = t
                THEN [DefaultFrame EXCEPT
                         !.op = "SetVelocity",
                         !.lin = linear, !.ang = angular,
                         !.waiting = {w \in Threads : pc[w] = "spin_wait"}]
                ELSE IF u = currentOp /\ fr[u].op = "Spin"
                     THEN [fr[u] EXCEPT !.overtaken =
                              [lin |-> linear, ang |-> angular, budget |-> budget - 1]]
                     ELSE fr[u]]
    /\ UNCHANGED <<hasSensor, nMotors, nThreads, st, mutex, cancel, loopCtxCancelled, wg,
                   motors, ret, superseded, closeStopped, pure>>

\* Lock; startVelocityThreadInLock up to `ctx, b.cancel = context.WithCancel(...)`.
SvLock(t) ==
    /\ pc[t] = "sv_lock"
    /\ mutex = NoProc
    /\ \/ /\ ~ShouldStartThread(st)
          /\ st' = SetVelocityState(st, fr[t].lin, fr[t].ang)
          /\ pc' = [pc EXCEPT ![t] = "idle"]
          /\ fr' = [fr EXCEPT ![t] = DefaultFrame]
          /\ ret' = [op |-> "SetVelocity", err |-> "nil"]
          /\ DoneOp(t)
          /\ superseded' = superseded \cup {u \in fr[t].waiting : pc[u] = "spin_wait"}
          /\ UNCHANGED <<mutex, cancel>>
       \/ /\ ShouldStartThread(st)
          /\ ~hasSensor
          /\ st' = SetVelocityFailedState(st, fr[t].lin, fr[t].ang)
          /\ pc' = [pc EXCEPT ![t] = "idle"]
          /\ fr' = [fr EXCEPT ![t] = DefaultFrame]
          /\ ret' = [op |-> "SetVelocity", err |-> "no movementSensor"]
          /\ DoneOp(t)
          /\ UNCHANGED <<mutex, cancel, superseded>>
       \/ /\ ShouldStartThread(st)
          /\ hasSensor
          /\ cancel' = TRUE
          /\ mutex' = t
          /\ pc' = [pc EXCEPT ![t] = "sv_start"]
          /\ UNCHANGED <<st, fr, ret, currentOp, opCancelled, superseded>>
    /\ UNCHANGED <<hasSensor, nMotors, nThreads, budget, loopCtxCancelled, wg,
                   motors, quietStops, stopClean, closeStopped, pure>>

\* waitGroup.Add(1), the go statement, threadStarted = true; the goals; unlock.
SvStart(t) ==
    /\ pc[t] = "sv_start"
    /\ wg' = wg + 1
    /\ st' = SetVelocityState([st EXCEPT !.threadStarted = TRUE], fr[t].lin, fr[t].ang)
    /\ mutex' = NoProc
    /\ pc' = [pc EXCEPT ![t] = "idle", ![Loop] = "tick"]
    /\ fr' = [fr EXCEPT ![t] = DefaultFrame, ![Loop] = DefaultFrame]
    /\ ret' = [op |-> "SetVelocity", err |-> "nil"]
    /\ DoneOp(t)
    /\ superseded' = superseded \cup {u \in fr[t].waiting : pc[u] = "spin_wait"}
    /\ UNCHANGED <<hasSensor, nMotors, nThreads, budget, cancel, loopCtxCancelled,
                   motors, quietStops, stopClean, closeStopped, pure>>

(***************************************************************************)
(* Spin.                                                                   *)
(***************************************************************************)
\* The sensor check, the first CompassHeading read, opMgr.New.
CallSpin(t, angleDeg, degsPerSec) ==
    /\ CanCall(t)
    /\ budget' = budget - 1
    /\ \/ /\ ~hasSensor
          /\ ret' = [op |-> "Spin", err |-> "no movementSensor"]
          /\ UNCHANGED <<pc, fr, currentOp, opCancelled, quietStops, stopClean>>
       \/ /\ hasSensor
          /\ \E compass \in Headings :
                fr' = [fr EXCEPT ![t] = [DefaultFrame EXCEPT
                                            !.op = "Spin",
                                            !.compass = compass,
                                            !.angle = angleDeg,
                                            !.goal = SpinGoal(compass, angleDeg),
                                            !.rate = degsPerSec]]
          /\ NewOp(t)
          /\ MotionBegins
          /\ pc' = [pc EXCEPT ![t] = "spin_lock"]
          /\ UNCHANGED ret
    /\ UNCHANGED <<hasSensor, nMotors, nThreads, st, mutex, cancel, loopCtxCancelled, wg,
                   motors, superseded, closeStopped, pure>>

\* Lock; the heading goal; startVelocityThreadInLock up to the new context.
SpinLock(t) ==
    /\ pc[t] = "spin_lock"
    /\ mutex = NoProc
    /\ \/ /\ ~ShouldStartThread(st)
          /\ st' = SpinState(st, fr[t].goal, fr[t].rate)
          /\ pc' = [pc EXCEPT ![t] = "spin_wait"]
          /\ UNCHANGED <<mutex, cancel>>
       \/ /\ ShouldStartThread(st)
          /\ st' = SpinState(st, fr[t].goal, fr[t].rate)
          /\ cancel' = TRUE
          /\ mutex' = t
          /\ pc' = [pc EXCEPT ![t] = "spin_start"]
    /\ UNCHANGED <<hasSensor, nMotors, nThreads, budget, loopCtxCancelled, wg, currentOp,
                   opCancelled, motors, fr, ret, quietStops, stopClean, superseded,
                   closeStopped, pure>>

SpinStart(t) ==
    /\ pc[t] = "spin_start"
    /\ wg' = wg + 1
    /\ st' = [st EXCEPT !.threadStarted = TRUE]
    /\ mutex' = NoProc
    /\ pc' = [pc EXCEPT ![t] = "spin_wait", ![Loop] = "tick"]
    /\ fr' = [fr EXCEPT ![Loop] = DefaultFrame]
    /\ UNCHANGED <<hasSensor, nMotors, nThreads, budget, cancel, loopCtxCancelled, currentOp,
                   opCancelled, motors, ret, quietStops, stopClean, superseded,
                   closeStopped, pure>>

\* opMgr.WaitForSuccess(ctx, ...) with the caller's context: one poll, and
\* when it does not succeed the wait in SelectContextOrWait begins.  A Spin
\* whose context is cancelled while it sleeps there polls no more.
SpinPoll(t) ==
    /\ pc[t] = "spin_wait"
    /\ ~(fr[t].asleep /\ fr[t].ctxDone)
    /\ \E compass \in Headings :
          IF SpinDone(fr[t].goal, compass)
          THEN /\ pc' = [pc EXCEPT ![t] = "idle"]
               /\ fr' = [fr EXCEPT ![t] = DefaultFrame]
               /\ ret' = [op |-> "Spin", err |-> "nil"]
               /\ DoneOp(t)
               /\ superseded' = superseded \ {t}
          ELSE /\ fr' = [fr EXCEPT ![t].asleep = TRUE]
               /\ UNCHANGED <<pc, ret, currentOp, opCancelled, superseded>>
    /\ UNCHANGED <<hasSensor, nMotors, nThreads, budget, st, mutex, cancel, loopCtxCancelled,
                   wg, motors, quietStops, stopClean, closeStopped, pure>>

(***************************************************************************)
(* SetPower and setPowerInternal.                                          *)
(***************************************************************************)
CallSetPower(t, linear, angular) ==
    /\ CanCall(t)
    /\ budget' = budget - 1
    /\ NewOp(t)
    /\ MotionBegins
    /\ pc' = [pc EXCEPT ![t] = "pw_lock"]
    /\ fr' = [fr EXCEPT ![t] = [DefaultFrame EXCEPT !.op = "SetPower",
                                                   !.lin = linear, !.ang = angular]]
    /\ UNCHANGED <<hasSensor, nMotors, nThreads, st, mutex, cancel, loopCtxCancelled, wg,
                   motors, ret, superseded, closeStopped, pure>>

PwLock_NoLock(t) ==
    /\ pc[t] = "pw_lock"
    /\ st' = SetPowerState(st)
    /\ pc' = [pc EXCEPT ![t] = "spi_dispatch"]
    /\ fr' = [fr EXCEPT ![t].power = ComputePower(nMotors, fr[t].lin, fr[t].ang),
                        ![t].idx = 1]
    /\ UNCHANGED <<hasSensor, nMotors, nThreads, budget, mutex, cancel, loopCtxCancelled, wg,
                   currentOp, opCancelled, motors, ret, quietStops, stopClean,
                   superseded, closeStopped, pure>>

\* controlState = controlNone under the lock, then ComputePower.
PwLock(t) ==
    /\ pc[t] = "pw_lock"
    /\ mutex = NoProc
    /\ st' = SetPowerState(st)
    /\ pc' = [pc EXCEPT ![t] = "spi_dispatch"]
    /\ fr' = [fr EXCEPT ![t].power = ComputePower(nMotors, fr[t].lin, fr[t].ang),
                        ![t].idx = 1]
    /\ UNCHANGED <<hasSensor, nMotors, nThreads, budget, mutex, cancel, loopCtxCancelled, wg,
                   currentOp, opCancelled, motors, ret, quietStops, stopClean,
                   superseded, closeStopped, pure>>

\* setPowerInternal returns err to its caller: SetPower returns it, the loop
\* exits on context.Canceled and goes on to the next tick otherwise.
SpiReturn(p, err, canceled) ==
    IF p = Loop
    THEN /\ IF canceled
            THEN /\ pc' = [pc EXCEPT ![p] = "exited"]
                 /\ wg' = wg - 1
            ELSE /\ pc' = [pc EXCEPT ![p] = "tick"]
                 /\ wg' = wg
         /\ fr' = [fr EXCEPT ![p] = DefaultFrame]
         /\ UNCHANGED <<ret, currentOp, opCancelled>>
    ELSE /\ pc' = [pc EXCEPT ![p] = "idle"]
         /\ fr' = [fr EXCEPT ![p] = DefaultFrame]
         /\ ret' = [op |-> "SetPower", err |-> err]
         /\ DoneOp(p)
         /\ wg' = wg

\* b.motors[idx].SetPower(ctx, p, nil), then the ctx.Err() check.  A motor
\* handed a cancelled context either applies the power or reports the
\* cancellation.
SpiDispatch(p) ==
    /\ pc[p] = "spi_dispatch"
    /\ fr[p].idx <= Len(fr[p].power)
    /\ \/ /\ motors' = [motors EXCEPT ![fr[p].idx] = fr[p].power[fr[p].idx]]
          /\ IF CtxDone(p)
             THEN SpiReturn(p, "canceled", TRUE)
             ELSE /\ fr' = [fr EXCEPT ![p].idx = fr[p].idx + 1,
                                      ![p].sent = fr[p].sent \cup {fr[p].idx}]
                  /\ UNCHANGED <<pc, ret, currentOp, opCancelled, wg>>
       \/ /\ CtxDone(p)
          /\ pc' = [pc EXCEPT ![p] = "stop_begin"]
          /\ fr' = [fr EXCEPT ![p].err = "canceled", ![p].after = "spi",
                              ![p].failedAt = fr[p].idx]
          /\ UNCHANGED <<motors, ret, currentOp, opCancelled, wg>>
    /\ UNCHANGED <<hasSensor, nMotors, nThreads, budget, st, mutex, cancel, loopCtxCancelled,
                   quietStops, stopClean, superseded, closeStopped, pure>>

\* lastPower, lastPowerLinear, lastPowerAngular under the lock; return nil.
SpiCommit(p) ==
    /\ pc[p] = "spi_dispatch"
    /\ fr[p].idx > Len(fr[p].power)
    /\ mutex = NoProc
    /\ st' = LastPowerState(st, fr[p].power, fr[p].lin, fr[p].ang)
    /\ SpiReturn(p, "nil", FALSE)
    /\ UNCHANGED <<hasSensor, nMotors, nThreads, budget, mutex, cancel, loopCtxCancelled,
                   motors, quietStops, stopClean, superseded, closeStopped, pure>>

(***************************************************************************)
(* Stop.                                                                   *)
(***************************************************************************)
CallStop(t) ==
    /\ CanCall(t)
    /\ budget' = budget - 1
    /\ pc' = [pc EXCEPT ![t] = "stop_begin"]
    /\ fr' = [fr EXCEPT ![t] = [DefaultFrame EXCEPT !.op = "Stop", !.after = "Stop"]]
    /\ stopClean' = IF \A u \in Threads : fr[u].op \notin MotionOps
                    THEN stopClean \cup {t} ELSE stopClean
    /\ UNCHANGED <<hasSensor, nMotors, nThreads, st, mutex, cancel, loopCtxCancelled, wg,
                   currentOp, opCancelled, motors, ret, quietStops, superseded,
                   closeStopped, pure>>

\* The goals are zeroed under the lock, then opMgr.CancelRunning(ctx).
StopBegin(p) ==
    /\ pc[p] = "stop_begin"
    /\ mutex = NoProc
    /\ st' = StopState(st)
    /\ CancelRunning(p)
    /\ pc' = [pc EXCEPT ![p] = "stop_motors"]
    /\ fr' = [fr EXCEPT ![p].idx = 1, ![p].stopped = {}]
    /\ UNCHANGED <<hasSensor, nMotors, nThreads, budget, mutex, cancel, loopCtxCancelled, wg,
                   motors, ret, quietStops, stopClean, superseded, closeStopped, pure>>

\* m.Stop(ctx, nil) for one motor.  Under a cancelled context the motor
\* either stops or reports the cancellation.
StopMotor(p) ==
    /\ pc[p] = "stop_motors"
    /\ fr[p].idx <= nMotors
    /\ \/ /\ motors' = [motors EXCEPT ![fr[p].idx] = 0]
          /\ fr' = [fr EXCEPT ![p].idx = fr[p].idx + 1,
                              ![p].stopped = fr[p].stopped \cup {fr[p].idx}]
       \/ /\ fr[p].after = "spi"
          /\ CtxDone(p)
          /\ fr' = [fr EXCEPT ![p].idx = fr[p].idx + 1,
                              ![p].stopped = fr[p].stopped \cup {fr[p].idx},
                              ![p].serr = Combine("canceled", fr[p].serr),
                              ![p].scancel = TRUE]
          /\ UNCHANGED motors
    /\ UNCHANGED <<hasSensor, nMotors, nThreads, budget, st, mutex, cancel, loopCtxCancelled,
                   wg, currentOp, opCancelled, pc, ret, quietStops, stopClean,
                   superseded, closeStopped, pure>>

\* Stop returns the combined motor errors to whoever called it;
\* setPowerInternal returns multierr.Combine(b.Stop(ctx, nil), err).
StopEnd(p) ==
    /\ pc[p] = "stop_motors"
    /\ fr[p].idx > nMotors
    /\ \/ /\ fr[p].after = "spi"
          /\ SpiReturn(p, Combine(fr[p].serr, fr[p].err),
                          fr[p].err = "canceled" \/ fr[p].scancel)
          /\ UNCHANGED <<quietStops, stopClean, closeStopped>>
       \/ /\ fr[p].after \in {"Stop", "Close"}
          /\ pc' = [pc EXCEPT ![p] = "idle"]
          /\ fr' = [fr EXCEPT ![p] = DefaultFrame]
          /\ ret' = [op |-> fr[p].after, err |-> fr[p].serr]
          /\ quietStops' = IF fr[p].after = "Stop" /\ p \in stopClean
                           THEN Min(2, quietStops + 1) ELSE quietStops
          /\ stopClean' = stopClean \ {p}
          /\ closeStopped' = (closeStopped \/ fr[p].after = "Close")
          /\ UNCHANGED <<currentOp, opCancelled, wg>>
    /\ UNCHANGED <<hasSensor, nMotors, nThreads, budget, st, mutex, cancel, loopCtxCancelled,
                   motors, superseded, pure>>

(***************************************************************************)
(* Close.                                                                  *)
(***************************************************************************)
\* if b.cancel != nil { b.cancel(); b.cancel = nil; ... }
CallClose(t) ==
    /\ CanCall(t)
    /\ budget' = budget - 1
    /\ fr' = [fr EXCEPT ![t] = [DefaultFrame EXCEPT !.op = "Close", !.after = "Close"]]
    /\ IF cancel
       THEN /\ loopCtxCancelled' = TRUE
            /\ cancel' = FALSE
            /\ pc' = [pc EXCEPT ![t] = "close_wait"]
       ELSE /\ pc' = [pc EXCEPT ![t] = "stop_begin"]
            /\ UNCHANGED <<loopCtxCancelled, cancel>>
    /\ UNCHANGED <<hasSensor, nMotors, nThreads, st, mutex, wg, currentOp, opCancelled, motors,
                   ret, quietStops, stopClean, superseded, closeStopped, pure>>

\* b.waitGroup.Wait()
CloseWait(t) ==
    /\ pc[t] = "close_wait"
    /\ wg = 0
    /\ pc' = [pc EXCEPT ![t] = "stop_begin"]
    /\ UNCHANGED <<hasSensor, nMotors, nThreads, budget, st, mutex, cancel, loopCtxCancelled,
                   wg, currentOp, opCancelled, motors, fr, ret, quietStops, stopClean,
                   superseded, closeStopped, pure>>

(***************************************************************************)
(* The background loop goroutine of startVelocityThreadInLock.             *)
(***************************************************************************)
\* The loop returns: the deferred waitGroup.Done().
LoopExit ==
    /\ pc' = [pc EXCEPT ![Loop] = "exited"]
    /\ fr' = [fr EXCEPT ![Loop] = DefaultFrame]
    /\ wg' = wg - 1

\* utils.SelectContextOrWait(ctx, 500ms), its result dropped, then the two
\* sensor reads of velocityThreadLoop.  A sensor handed a cancelled context
\* either answers or reports the cancellation.
LoopRead ==
    /\ pc[Loop] = "tick"
    /\ \/ /\ pc' = [pc EXCEPT ![Loop] = "compute"]
          /\ UNCHANGED <<fr, wg>>
       \/ /\ loopCtxCancelled
          /\ LoopExit
    /\ UNCHANGED <<hasSensor, nMotors, nThreads, budget, st, mutex, cancel,
                   loopCtxCancelled, currentOp, opCancelled, motors, ret, quietStops,
                   stopClean, superseded, closeStopped, pure>>

\* The locked part of velocityThreadLoop, then ComputePower in
\* setPowerInternal.  The readings do not depend on the boat's state, so
\* they are drawn here, at the moment the lock is taken.
LoopCompute ==
    /\ pc[Loop] = "compute"
    /\ mutex = NoProc
    /\ \E av \in AngularVelocities, heading \in Headings :
          IF st.controlState = controlNone
          THEN /\ pc' = [pc EXCEPT ![Loop] = "tick"]
               /\ UNCHANGED <<st, fr>>
          ELSE LET state == TickState(st, heading)
                   next == computeNextPower(state, av)
               IN  /\ st' = state
                   /\ pc' = [pc EXCEPT ![Loop] = "spi_dispatch"]
                   /\ fr' = [fr EXCEPT ![Loop] =
                                [DefaultFrame EXCEPT
                                    !.lin = next[1], !.ang = next[2],
                                    !.power = ComputePower(nMotors, next[1], next[2]),
                                    !.idx = 1]]
    /\ UNCHANGED <<hasSensor, nMotors, nThreads, budget, mutex, cancel,
                   loopCtxCancelled, wg, currentOp, opCancelled, motors, ret,
                   quietStops, stopClean, superseded, closeStopped, pure>>

(***************************************************************************)
(* The specification of the boat.                                          *)
(***************************************************************************)
Next ==
    \/ \E t \in Threads, linear \in LinearArgs, angular \in AngularArgs :
          CallSetVelocity(t, linear, angular)
    \/ \E t \in Threads : SvLock(t)
    \/ \E t \in Threads : SvStart(t)
    \/ \E t \in Threads, angleDeg \in SpinAngles, degsPerSec \in SpinRates :
          CallSpin(t, angleDeg, degsPerSec)
    \/ \E t \in Threads : SpinLock(t)
    \/ \E t \in Threads : SpinStart(t)
    \/ \E t \in Threads : SpinPoll(t)
    \/ \E t \in Threads, linear \in LinearArgs, angular \in PowerAngularArgs :
          CallSetPower(t, linear, angular)
    \/ \E t \in Threads : PwLock(t)
    \/ \E p \in Procs : SpiDispatch(p)
    \/ \E p \in Procs : SpiCommit(p)
    \/ \E t \in Threads : CallStop(t)
    \/ \E p \in Procs : StopBegin(p)
    \/ \E p \in Procs : StopMotor(p)
    \/ \E p \in Procs : StopEnd(p)
    \/ \E t \in Threads : CallClose(t)
    \/ \E t \in Threads : CloseWait(t)
    \/ LoopRead
    \/ LoopCompute

Spec == Init /\ [][Next]_vars

(***************************************************************************)
(* The boat in an environment that fails: the caller of a Spin cancels the *)
(* context it passed while the Spin waits; a sensor read of a loop tick, a *)
(* motor's SetPower or Stop, or ComputePower returns an error that is not  *)
(* a cancellation.                                                         *)
(***************************************************************************)
CancelCallerCtx(t) ==
    /\ pc[t] = "spin_wait"
    /\ ~fr[t].ctxDone
    /\ fr' = [fr EXCEPT ![t].ctxDone = TRUE]
    /\ UNCHANGED <<hasSensor, nMotors, nThreads, budget, st, mutex, cancel,
                   loopCtxCancelled, wg, currentOp, opCancelled, motors, pc, ret,
                   quietStops, stopClean, superseded, closeStopped, pure>>

\* WaitForSuccess returns ctx.Err(): SelectContextOrWait found the context
\* done, or the compass read reported it.  The deferred done() runs.
SpinCancelled(t) ==
    /\ pc[t] = "spin_wait"
    /\ fr[t].ctxDone
    /\ st' = SpinCancelledState(st)
    /\ pc' = [pc EXCEPT ![t] = "idle"]
    /\ fr' = [fr EXCEPT ![t] = DefaultFrame]
    /\ ret' = [op |-> "Spin", err |-> "canceled"]
    /\ DoneOp(t)
    /\ superseded' = superseded \ {t}
    /\ UNCHANGED <<hasSensor, nMotors, nThreads, budget, mutex, cancel, loopCtxCancelled,
                   wg, motors, quietStops, stopClean, closeStopped, pure>>

\* AngularVelocity or CompassHeading fails: velocityThreadLoop returns the
\* error, the goroutine logs it and goes round again.
LoopSensorFails ==
    /\ pc[Loop] = "tick"
    /\ fr' = [fr EXCEPT ![Loop].err = "sensor error"]
    /\ UNCHANGED <<hasSensor, nMotors, nThreads, budget, st, mutex, cancel,
                   loopCtxCancelled, wg, currentOp, opCancelled, motors, pc, ret,
                   quietStops, stopClean, superseded, closeStopped, pure>>

\* b.motors[idx].SetPower fails: setPowerInternal goes on to b.Stop.
SpiMotorFails(p) ==
    /\ pc[p] = "spi_dispatch"
    /\ fr[p].idx <= Len(fr[p].power)
    /\ pc' = [pc EXCEPT ![p] = "stop_begin"]
    /\ fr' = [fr EXCEPT ![p].err = "motor error", ![p].after = "spi",
                        ![p].failedAt = fr[p].idx]
    /\ UNCHANGED <<hasSensor, nMotors, nThreads, budget, st, mutex, cancel,
                   loopCtxCancelled, wg, currentOp, opCancelled, motors, ret,
                   quietStops, stopClean, superseded, closeStopped, pure>>

StopMotorFails_Aborts(p) ==
    /\ pc[p] = "stop_motors"
    /\ fr[p].idx <= nMotors
    /\ fr' = [fr EXCEPT ![p].idx = nMotors + 1,
                        ![p].stopped = fr[p].stopped \cup {fr[p].idx},
                        ![p].serr = Combine("stop error", fr[p].serr)]
    /\ UNCHANGED <<hasSensor, nMotors, nThreads, budget, st, mutex, cancel,
                   loopCtxCancelled, wg, currentOp, opCancelled, motors, pc, ret,
                   quietStops, stopClean, superseded, closeStopped, pure>>

\* m.Stop fails: Stop combines the error and goes on to the next motor.
StopMotorFails(p) ==
    /\ pc[p] = "stop_motors"
    /\ fr[p].idx <= nMotors
    /\ fr' = [fr EXCEPT ![p].idx = fr[p].idx + 1,
                        ![p].stopped = fr[p].stopped \cup {fr[p].idx},
                        ![p].serr = Combine("stop error", fr[p].serr)]
    /\ UNCHANGED <<hasSensor, nMotors, nThreads, budget, st, mutex, cancel,
                   loopCtxCancelled, wg, currentOp, opCancelled, motors, pc, ret,
                   quietStops, stopClean, superseded, closeStopped, pure>>

\* SetPower: b.cfg.ComputePower fails, setPowerInternal returns its error.
PwAllocFails(t) ==
    /\ pc[t] = "pw_lock"
    /\ mutex = NoProc
    /\ st' = SetPowerState(st)
    /\ pc' = [pc EXCEPT ![t] = "idle"]
    /\ fr' = [fr EXCEPT ![t] = DefaultFrame]
    /\ ret' = [op |-> "SetPower", err |-> "allocator error"]
    /\ DoneOp(t)
    /\ UNCHANGED <<hasSensor, nMotors, nThreads, budget, mutex, cancel, loopCtxCancelled,
                   wg, motors, quietStops, stopClean, superseded, closeStopped, pure>>

\* A loop tick: b.cfg.ComputePower fails after the locked part.
LoopAllocFails ==
    /\ pc[Loop] = "compute"
    /\ mutex = NoProc
    /\ st.controlState # controlNone
    /\ \E heading \in Headings : st' = TickState(st, heading)
    /\ pc' = [pc EXCEPT ![Loop] = "tick"]
    /\ fr' = [fr EXCEPT ![Loop] = [DefaultFrame EXCEPT !.err = "allocator error"]]
    /\ UNCHANGED <<hasSensor, nMotors, nThreads, budget, mutex, cancel,
                   loopCtxCancelled, wg, currentOp, opCancelled, motors, ret,
                   quietStops, stopClean, superseded, closeStopped, pure>>

Fault ==
    \/ \E t \in Threads : CancelCallerCtx(t)
    \/ \E t \in Threads : SpinCancelled(t)
    \/ LoopSensorFails
    \/ \E p \in Procs : SpiMotorFails(p)
    \/ \E p \in Procs : StopMotorFails(p)
    \/ \E t \in Threads : PwAllocFails(t)
    \/ LoopAllocFails

FaultNext == Next \/ Fault

FaultConfigs ==
    {[threads |-> 1, calls |-> MaxFaultCalls, motors |-> m] : m \in 0..MaxFaultMotors}

FaultInit == \E cfg \in FaultConfigs : InitFor(cfg)

FaultSpec == FaultInit /\ [][FaultNext]_vars

(***************************************************************************)
(* The specification with the scheduling the Go runtime gives: a goroutine *)
(* that can take a step eventually takes one.  Nothing is assumed about    *)
(* which answer a sensor or a motor gives, nor about new calls arriving.   *)
(***************************************************************************)
LoopStep ==
    \/ LoopRead
    \/ LoopCompute
    \/ SpiDispatch(Loop)
    \/ SpiCommit(Loop)
    \/ StopBegin(Loop)
    \/ StopMotor(Loop)
    \/ StopEnd(Loop)

ThreadStep(t) ==
    \/ SvLock(t)
    \/ SvStart(t)
    \/ SpinLock(t)
    \/ SpinStart(t)
    \/ SpinPoll(t)
    \/ PwLock(t)
    \/ SpiDispatch(t)
    \/ SpiCommit(t)
    \/ StopBegin(t)
    \/ StopMotor(t)
    \/ StopEnd(t)
    \/ CloseWait(t)

LiveInit == \E cfg \in Configs : cfg.threads = 1 /\ InitFor(cfg)

FairSpec ==
    /\ LiveInit
    /\ [][Next]_vars
    /\ WF_vars(LoopStep)
    /\ \A t \in Threads : WF_vars(ThreadStep(t))

(***************************************************************************)
(* The pure functions applied to inputs drawn from bounded sets.           *)
(***************************************************************************)
TickMs == 500

PureHeadings == 0..MaxDiff
PureGoals == 0..MaxDiff
PureSpinRates == {5, 10}
PureLastZ == {-PowerOne, 0, 30, PowerOne}
PureAngularGoals == {0, 5}
PureAngularVelocities == {0, 2, 3, 8}

boatVars == <<hasSensor, nMotors, nThreads, budget, st, mutex, cancel,
              loopCtxCancelled, wg, currentOp, opCancelled, motors, pc, fr, ret,
              quietStops, stopClean, superseded, closeStopped>>

PureInit == InitFor([threads |-> 1, calls |-> 0, motors |-> 0])

ApplyShaper ==
    /\ \E heading \in PureHeadings, goal \in PureGoals, spin \in PureSpinRates :
          LET state == [InitState EXCEPT !.controlState = controlHeading,
                                         !.compassGoal = goal,
                                         !.spinVelocity = spin]
          IN  pure' = [fn |-> "updateVelocityGoalForHeading",
                       a |-> heading, b |-> goal, c |-> spin,
                       out |-> updateVelocityGoalForHeading(state, heading)
                                   .velocityAngularGoal.Z]
    /\ UNCHANGED boatVars

ApplyComputeNextPower ==
    /\ \E lastZ \in PureLastZ, goalZ \in PureAngularGoals,
          av \in PureAngularVelocities :
          LET state == [InitState EXCEPT !.controlState = controlVelocity,
                                         !.lastPowerAngular.Z = lastZ,
                                         !.velocityAngularGoal.Z = goalZ]
          IN  pure' = [fn |-> "computeNextPower",
                       a |-> lastZ, b |-> goalZ, c |-> av,
                       out |-> computeNextPower(state, av)[2].Z]
    /\ UNCHANGED boatVars

GoalVals == {-2 * GoalUnit, -GoalUnit, 0, GoalUnit, 2 * GoalUnit}
GoalGoals == {-GoalUnit, 0, 4, 50, GoalUnit}

ApplyGoalScale ==
    /\ \E currentVal \in GoalVals, otherVal \in GoalVals,
          currentGoal \in GoalGoals, otherGoal \in GoalGoals :
          pure' = [fn |-> "goalScale",
                   a |-> currentVal, b |-> otherVal, c |-> currentGoal, d |-> otherGoal,
                   out |-> goalScale(currentVal, otherVal, currentGoal, otherGoal)]
    /\ UNCHANGED boatVars

StartHeadings == {0, 90, 350}
TurnAngles == {-90, 10, 90}
CompassReadings == {0, 10, 80, 90, 260, 270, 350, 359}

\* Spin's goal and its wait condition, and the shaper of a loop tick, on one
\* compass reading.
ApplySpinCheck ==
    /\ \E start \in StartHeadings, angleDeg \in TurnAngles,
          compass \in CompassReadings, degsPerSec \in PureSpinRates :
          LET goal == SpinGoal(start, angleDeg)
              state == SpinState(InitState, goal, degsPerSec)
          IN  pure' = [fn |-> "Spin",
                       a |-> start, b |-> angleDeg, c |-> compass, d |-> degsPerSec,
                       done |-> SpinDone(goal, compass),
                       out |-> updateVelocityGoalForHeading(state, compass)
                                   .velocityAngularGoal.Z]
    /\ UNCHANGED boatVars

PureNext == ApplyShaper \/ ApplyComputeNextPower \/ ApplyGoalScale \/ ApplySpinCheck

PureSpec == PureInit /\ [][PureNext]_vars

(***************************************************************************)
(* pidState.Control called repeatedly.  A run is either TestPID1's (target *)
(* 5.0, 100 ms, current = 10 x the previous output, default bounds) or a   *)
(* free one: any target, measurement and interval of the sets below, on a  *)
(* controller whose bounds are the defaults or 0.                          *)
(***************************************************************************)
PlantTarget == 5
PlantGain == 10
PlantDtMs == 100

FreeTargets == {-20, 0, 20}
FreeCurrents == {0, 10}
FreeDts == {100, TickMs}
FreeMinOutputs == {-PidScale, 0}
FreeMaxOutputs == {PidScale, 0}

PidRun(mode, pid) ==
    [fn |-> "Control", mode |-> mode, pid |-> pid, before |-> pid,
     target |-> 0, current |-> 0, dt |-> 0, out |-> 0, calls |-> 0]

\* pid := pidState{}; pid.setDefaults()
NewPid ==
    /\ pure.fn = ""
    /\ \/ pure' = PidRun("plant", setDefaults)
       \/ \E lo \in FreeMinOutputs, hi \in FreeMaxOutputs :
             pure' = PidRun("free", [setDefaults EXCEPT !.minOutput = lo, !.maxOutput = hi])
    /\ UNCHANGED boatVars

PidCall(target, current, dtMs) ==
    LET r == Control(pure.pid, target, current, dtMs)
    IN  pure' = [pure EXCEPT !.pid = r.pid, !.before = pure.pid, !.target = target,
                             !.current = current, !.dt = dtMs, !.out = r.out,
                             !.calls = pure.calls + 1]

\* One iteration of TestPID1's loop.
PlantCall ==
    /\ pure.fn = "Control"
    /\ pure.mode = "plant"
    /\ pure.calls < MaxPidCalls
    /\ PidCall(PlantTarget * PidScale, PlantGain * pure.out, PlantDtMs)
    /\ UNCHANGED boatVars

FreeCall ==
    /\ pure.fn = "Control"
    /\ pure.mode = "free"
    /\ pure.calls < MaxFreeCalls
    /\ \E target \in FreeTargets, current \in FreeCurrents, dtMs \in FreeDts :
          PidCall(target * PidScale, current * PidScale, dtMs)
    /\ UNCHANGED boatVars

PidNext == NewPid \/ PlantCall \/ FreeCall

PidSpec == PureInit /\ [][PidNext]_vars

(***************************************************************************)
(* Properties.                                                             *)
(***************************************************************************)
LoopAlive == pc[Loop] \notin {"off", "exited"}

\* Thread t returns from the call named op in this step.
Returns(t, op) == pc[t] # "idle" /\ pc'[t] = "idle" /\ fr[t].op = op

\* C1: after SetVelocity returns nil the mode is velocity-hold and the goals
\* are the arguments; once Spin has written under the lock the mode is
\* heading-hold, the heading goal is the compass heading read at the start
\* of Spin plus angleDeg, the linear goal is zero and the spin rate is
\* degsPerSec; once SetPower has written under the lock the mode is none.
C1_CommandTransitions ==
    [][\A t \in Threads :
          /\ (Returns(t, "SetVelocity") /\ ret'.err = "nil")
                => /\ st'.controlState = controlVelocity
                   /\ st'.velocityLinearGoal = fr[t].lin
                   /\ st'.velocityAngularGoal = fr[t].ang
          /\ (pc[t] = "spin_lock" /\ pc'[t] # "spin_lock")
                => /\ st'.controlState = controlHeading
                   /\ st'.compassGoal = fr[t].compass + fr[t].angle
                   /\ st'.velocityLinearGoal = ZeroVec
                   /\ st'.spinVelocity = fr[t].rate
          /\ (pc[t] = "pw_lock" /\ pc'[t] # "pw_lock")
                => st'.controlState = controlNone]_vars

\* A Spin, then a SetVelocity with a linear goal, then a SetPower have all returned.
C1_Witness ==
    /\ ret = [op |-> "SetPower", err |-> "nil"]
    /\ st.controlState = controlNone
    /\ st.spinVelocity = 72
    /\ st.compassGoal = 90
    /\ st.velocityLinearGoal = Vec(0, PowerOne, 0)

\* C2: once Stop has been called twice in succession, with no motion
\* command issued since before the first of them, every motor is at zero power.
C2_StopTwiceLeavesMotorsOff ==
    quietStops = 2 => \A i \in 1..nMotors : motors[i] = 0

\* The loop calls SetPower on a motor in this step.
LoopIssuesSetPower ==
    /\ pc[Loop] = "spi_dispatch"
    /\ fr[Loop].idx <= nMotors
    /\ (pc'[Loop] # "spi_dispatch" \/ fr'[Loop].idx # fr[Loop].idx)

\* C3: Close stops the motors only after the loop has exited, so once a
\* Close has made its motor Stop calls the loop issues no motor SetPower.
C3_NoLoopPowerAfterClose ==
    [][/\ \A t \in Threads :
             (fr[t].op = "Close" /\ pc[t] = "stop_motors") => ~LoopAlive
       /\ closeStopped => ~LoopIssuesSetPower]_vars

\* C4: once the loop's context is cancelled the loop goroutine exits.
C4_LoopTerminates == (loopCtxCancelled /\ LoopAlive) ~> ~LoopAlive

C6_LoopIffThreadStarted == LoopAlive <=> st.threadStarted

\* C7: at most one background loop runs at any time.
C7_AtMostOneLoop == wg <= 1

\* Two callers ran Spin and SetVelocity concurrently and one loop runs.
C7_Witness ==
    /\ nThreads = 2
    /\ wg = 1
    /\ LoopAlive
    /\ pc[1] = "spin_wait"
    /\ ret = [op |-> "SetVelocity", err |-> "nil"]

\* C8: without a movement sensor SetVelocity and Spin return an error, no
\* loop is started, and the mode, the goals, the heading goal and the spin
\* rate keep their initial values.
C8_NoSensorNoChange ==
    ~hasSensor =>
        /\ (ret.op \in {"SetVelocity", "Spin"} => ret.err = "no movementSensor")
        /\ ~st.threadStarted
        /\ ~LoopAlive
        /\ wg = 0
        /\ ~cancel
        /\ st.controlState = InitState.controlState
        /\ st.velocityLinearGoal = InitState.velocityLinearGoal
        /\ st.velocityAngularGoal = InitState.velocityAngularGoal
        /\ st.compassGoal = InitState.compassGoal
        /\ st.spinVelocity = InitState.spinVelocity

\* Without a sensor, a SetVelocity has returned its error.
C8_Witness ==
    /\ ~hasSensor
    /\ ret = [op |-> "SetVelocity", err |-> "no movementSensor"]

\* What C9 states for diff = heading - goal.
ShaperAsClaimed(diff, spinRate) ==
    IF diff > 5 THEN spinRate
    ELSE IF diff < -5 THEN -spinRate
    ELSE IF Abs(diff) > 1 THEN Quot(spinRate * diff, 5)
    ELSE 0

\* C9: the heading shaper gives the full spin rate for |diff| > 5,
\* spinRate * diff / 5 for 1 < |diff| <= 5, and 0 for |diff| <= 1.
C9_ShaperBands ==
    pure.fn = "updateVelocityGoalForHeading"
        => pure.out = ShaperAsClaimed(pure.a - pure.b, pure.c)

\* C10: from a fresh state computeNextPower returns, within 0.01, the output
\* of the angular PID with default gains run on (goal, measured) over one
\* tick; so goal 5 and measured 0 give 0.588.
C10_AngularPowerIsPid ==
    (pure.fn = "computeNextPower" /\ pure.a = 0)
        => LET pid == Control(setDefaults, pure.b * PidScale, pure.c * PidScale, TickMs)
           IN  /\ Abs(pure.out * PidScale - pid.out * PowerOne) * 100
                     <= PidScale * PowerOne
               /\ (pure.b = 5 /\ pure.c = 0)
                     => Abs(pure.out * 1000 - 588 * PowerOne) <= 10 * PowerOne

\* C11: in TestPID1's run, on every call after the 200th, 10 x the output
\* is within 0.01 of the target 5.0.
C11_PidConverges ==
    (pure.fn = "Control" /\ pure.mode = "plant" /\ pure.calls > 200)
        => Abs(PlantGain * pure.out - PlantTarget * PidScale) * 100 <= PidScale

\* TestPID1's run has made more than 200 calls and 10 x the output is
\* within 0.001 of 5.0.
C11_Witness ==
    /\ pure.fn = "Control"
    /\ pure.mode = "plant"
    /\ pure.calls > 200
    /\ Abs(PlantGain * pure.out - PlantTarget * PidScale) * 1000 <= PidScale

\* p + i + d of a call, before any clamp, from the controller as it was.
PidSum(pid, target, current, dtMs) ==
    LET error == target - current
    IN  Quot(pid.proportionalGainNum * error, pid.proportionalGainDen)
          + Quot(pid.integralGainNum * (pid.integral + Quot(error * dtMs, 1000)),
                 pid.integralGainDen)
          + Quot(Quot(pid.derivativeGainNum * (error - pid.previousError),
                      pid.derivativeGainDen) * 1000, dtMs)

\* C17: with the default bounds every output lies in [-1, 1]; the integral
\* grows by error x dt with no clamp; previousError is the error of the
\* call; a bound that is 0 leaves the sum unclamped on that side.
C17_PidClamp ==
    (pure.fn = "Control" /\ pure.calls > 0)
        => LET error == pure.target - pure.current
               n == PidSum(pure.before, pure.target, pure.current, pure.dt)
               lo == pure.before.minOutput
               hi == pure.before.maxOutput
           IN  /\ (lo = -PidScale /\ hi = PidScale)
                     => (pure.out >= -PidScale /\ pure.out <= PidScale)
               /\ pure.pid.integral = pure.before.integral + Quot(error * pure.dt, 1000)
               /\ pure.pid.previousError = error
               /\ (hi = 0 /\ n > 0) => pure.out = n
               /\ (lo = 0 /\ n < 0) => pure.out = n
               /\ (hi = 0 /\ lo # 0) => pure.out = Max(lo, n)
               /\ (lo = 0 /\ hi # 0) => pure.out = Min(hi, n)

\* Default bounds: the output is clamped to 1 while the integral term alone exceeds 1.
C17_Witness ==
    /\ pure.fn = "Control"
    /\ pure.mode = "free"
    /\ pure.calls > 0
    /\ pure.before.minOutput = -PidScale
    /\ pure.before.maxOutput = PidScale
    /\ pure.out = PidScale
    /\ pure.pid.integralGainNum * pure.pid.integral > pure.pid.integralGainDen * PidScale

Sign(x) == IF x < 0 THEN -1 ELSE IF x > 0 THEN 1 ELSE 0

\* C18: goalScale returns currentVal unchanged unless both goals are outside
\* the deadband and |currentVal/otherVal| > |currentGoal/otherGoal|; then it
\* returns |otherVal| x |currentGoal/otherGoal| with the sign of currentVal,
\* so (2, 1, 1, 1) gives 1 and (-2, 1, 1, 1) gives -1.
C18_GoalScaleKeepsSign ==
    pure.fn = "goalScale"
        => /\ pure.out =
                 IF /\ Abs(pure.c) >= Deadband
                    /\ Abs(pure.d) >= Deadband
                    /\ Abs(pure.a) * Abs(pure.d) > Abs(pure.c) * Abs(pure.b)
                 THEN Sign(pure.a) * Quot(Abs(pure.b) * Abs(pure.c), Abs(pure.d))
                 ELSE pure.a
           /\ Sign(pure.out) \in {0, Sign(pure.a)}
           /\ Abs(pure.out) <= Abs(pure.a)

\* C20: whenever Spin's wait condition holds for a compass heading, the
\* heading shaper run on that heading and Spin's goal gives angular goal 0.
C20_DoneImpliesZeroGoal ==
    (pure.fn = "Spin" /\ pure.done) => pure.out = 0

\* The step is one of thread t.
Moves(t) == pc'[t] # pc[t] \/ fr'[t] # fr[t]

\* C12: a Spin whose context is cancelled while it sleeps in its heading
\* wait returns the cancellation error, and its return leaves the control
\* state, the loop and the motors as they were.
C12_CancelledSpinLeavesState ==
    [][\A t \in Threads :
          (pc[t] = "spin_wait" /\ fr[t].asleep /\ fr[t].ctxDone /\ Moves(t))
              => /\ pc'[t] = "idle"
                 /\ ret' = [op |-> "Spin", err |-> "canceled"]
                 /\ st' = st
                 /\ motors' = motors
                 /\ pc'[Loop] = pc[Loop]
                 /\ wg' = wg
                 /\ loopCtxCancelled' = loopCtxCancelled]_vars

\* A cancelled Spin has returned; heading-hold is still on and the loop runs.
C12_Witness ==
    /\ ret = [op |-> "Spin", err |-> "canceled"]
    /\ st.controlState = controlHeading
    /\ st.compassGoal = 90
    /\ st.spinVelocity = 72
    /\ LoopAlive
    /\ ~loopCtxCancelled

\* The loop takes a step of a tick that failed with an error other than the
\* cancellation: the failing sensor read, or the failing motor SetPower and
\* what setPowerInternal does after it.
FailedTickStep ==
    /\ Moves(Loop)
    /\ \/ pc[Loop] = "tick" /\ fr'[Loop].err = "sensor error"
       \/ /\ pc[Loop] \in {"spi_dispatch", "stop_begin", "stop_motors"}
          /\ "motor error" \in {fr[Loop].err, fr'[Loop].err}

\* C15: a tick that fails with a sensor or motor error that is not a
\* cancellation leaves the mode, the velocity and heading goals and the
\* running operation as they were, and the loop goes on to the next tick.
C15_FailedTickOnlySkips ==
    [][FailedTickStep
          => /\ st'.controlState = st.controlState
             /\ st'.velocityLinearGoal = st.velocityLinearGoal
             /\ st'.velocityAngularGoal = st.velocityAngularGoal
             /\ st'.compassGoal = st.compassGoal
             /\ st'.spinVelocity = st.spinVelocity
             /\ currentOp' = currentOp
             /\ opCancelled' = opCancelled
             /\ (pc'[Loop] = "exited" => loopCtxCancelled)]_vars

\* The last-power fields of the state are the same after the step.
LastPowerKept ==
    /\ st'.lastPower = st.lastPower
    /\ st'.lastPowerLinear = st.lastPowerLinear
    /\ st'.lastPowerAngular = st.lastPowerAngular

\* C16: in setPowerInternal, once the power command to motor k has failed,
\* the call sends no further power command and does not write the last-power
\* fields; when it returns, the motors before k were the only ones powered,
\* every motor was sent Stop, and the error is the stop errors combined
\* with the motor's.  When ComputePower fails no motor gets any command.
C16_FailedPowerStopsAll ==
    [][\A p \in Procs :
          /\ (fr[p].failedAt > 0 /\ Moves(p))
                => /\ \A i \in 1..nMotors : motors'[i] \in {motors[i], 0}
                   /\ LastPowerKept
          /\ (fr[p].failedAt > 0 /\ pc[p] = "stop_motors" /\ pc'[p] # "stop_motors")
                => /\ fr[p].sent = 1..(fr[p].failedAt - 1)
                   /\ fr[p].stopped = 1..nMotors
                   /\ p # Loop =>
                         ret' = [op |-> "SetPower", err |-> Combine(fr[p].serr, fr[p].err)]
          /\ (Moves(p) /\ IF p = Loop THEN fr'[p].err = "allocator error"
                                       ELSE /\ Returns(p, "SetPower")
                                            /\ ret'.err = "allocator error")
                => /\ fr[p].sent = {}
                   /\ fr[p].stopped = {}
                   /\ motors' = motors
                   /\ LastPowerKept]_vars

\* SetPower on two motors has returned the second motor's error combined
\* with a stop error; the first motor, powered before the failure, is off.
C16_Witness ==
    /\ nMotors = 2
    /\ ret = [op |-> "SetPower", err |-> "stop error; motor error"]
    /\ st.controlState = controlNone
    /\ st.lastPower = <<>>
    /\ motors[1] = 0

\* C13: once a SetPower has set the mode to none, dispatched its powers and
\* returned, and while no other call is in progress, the loop sends no power
\* command to a motor and does not overwrite the last-power fields.
C13_NoLoopPowerInModeNone ==
    [][(/\ st.controlState = controlNone
        /\ ret = [op |-> "SetPower", err |-> "nil"]
        /\ \A t \in Threads : pc[t] = "idle")
          => /\ ~LoopIssuesSetPower
             /\ Moves(Loop) => LastPowerKept]_vars

\* C14: whoever holds stateMutex is at a position without sensor or motor
\* I/O; the control state changes only in a step of the lock's holder, or in
\* a step that takes the free lock and releases it; and a step that commands
\* a motor touches no control state and is not the holder's.
C14_LockNotHeldAcrossIO ==
    /\ [](mutex # NoProc => pc[mutex] \in {"sv_start", "spin_start"})
    /\ [][/\ st' # st => (mutex = NoProc \/ Moves(mutex))
          /\ motors' # motors => (st' = st /\ (mutex # NoProc => ~Moves(mutex)))]_vars

\* One caller holds the lock inside startVelocityThreadInLock while another
\* is in Stop's loop over the motors.
C14_Witness ==
    /\ mutex = 1
    /\ pc[1] = "sv_start"
    /\ pc[2] = "stop_motors"
    /\ fr[2].idx <= nMotors

\* C19: when a SetVelocity registered its operation after a Spin did, and
\* has returned nil, and no call was made since, then with the Spin in its
\* wait the mode is velocity-hold and the goals are the SetVelocity's.
C19_SupersededSpinDoesNotOverwrite ==
    \A u \in Threads :
        (/\ fr[u].op = "Spin"
         /\ pc[u] = "spin_wait"
         /\ fr[u].overtaken.budget = budget
         /\ ret = [op |-> "SetVelocity", err |-> "nil"]
         /\ \A t \in Threads \ {u} : pc[t] = "idle")
            => /\ st.controlState = controlVelocity
               /\ st.velocityLinearGoal = fr[u].overtaken.lin
               /\ st.velocityAngularGoal = fr[u].overtaken.ang

====
